---- MODULE Spec2Model ----
(***************************************************************************)
(* deep-transcribe: the option model (TranscribeOptions: presets,          *)
(* from_with_flags, merge_with) and the pipeline orchestrator              *)
(* (transcribe_with_options, run_transcription, format_results).           *)
(*                                                                         *)
(* Every processing step is an opaque collaborator: a call either raises   *)
(* or returns a new item.  An item is modelled by its provenance (the      *)
(* sequence of steps that produced it) and its store_path.                 *)
(***************************************************************************)
EXTENDS Naturals, Sequences, FiniteSets

VARIABLES
    \* ---- option model: merge_with and the preset factories
    self,            \* receiver of merge_with
    other,           \* argument of merge_with
    merged,          \* value returned by self.merge_with(other), NoOptions before the call
    preset,          \* last preset factory call: [name, value], NoPreset before any call
    \* ---- option model: from_with_flags
    with_flags,      \* the input string, a sequence of lexemes
    flag_names,      \* the list of stripped tokens (line 87)
    idx,             \* position of the for loop in flag_names (line 89)
    parsed,          \* the local `options` object of from_with_flags
    unknown,         \* the token named by the ValueError, <<>> when none was raised
    ppc,             \* position in from_with_flags
    \* ---- orchestrator
    entry,           \* which public entry point was called
    options,         \* the options argument of transcribe_with_options
    no_minify,       \* the no_minify argument of run_transcription
    item,            \* the item argument of transcribe_with_options
    result,          \* the local `result` of transcribe_with_options
    result_item,     \* the local `result_item` of run_transcription / format_results
    config,          \* config.items in format_results
    html_result,     \* html_result.items in format_results
    minified_result, \* minified_result in format_results
    returned,        \* the value returned to the caller, NoReturn when none
    error,           \* the exception that reached the caller, "none" when none
    calls,           \* log of collaborator calls: [step, input, output]
    pc               \* position in the entry point

optVars == <<self, other, merged, preset>>
parseVars == <<with_flags, flag_names, idx, parsed, unknown, ppc>>
argVars == <<entry, options, no_minify>>
renderVars == <<result_item, config, html_result, minified_result, returned>>
pipeVars == <<entry, options, no_minify, item, result, result_item, config,
              html_result, minified_result, returned, error, calls, pc>>
vars == <<optVars, parseVars, pipeVars>>

(***************************************************************************)
(* TranscribeOptions: the record of seven boolean flags.                   *)
(***************************************************************************)
Fields ==
    <<"identify_speakers", "format", "insert_section_headings", "research_paras",
      "add_summary_bullets", "add_description", "insert_frame_captures">>

FieldSet == {Fields[i] : i \in DOMAIN Fields}

\* Every value of the dataclass.
AllOptions == [FieldSet -> BOOLEAN]

\* The dataclass constructor: a field not given takes its default, False.
TranscribeOptions(given) == [f \in FieldSet |-> f \in given]

basic == TranscribeOptions({})

formatted == TranscribeOptions({"format", "identify_speakers"})

\* Faulty variant of annotated: research_paras left on, as in deep.
annotated_with_research ==
    [identify_speakers |-> TRUE, format |-> TRUE, insert_section_headings |-> TRUE,
     research_paras |-> TRUE, add_summary_bullets |-> TRUE, add_description |-> TRUE,
     insert_frame_captures |-> TRUE]

annotated ==
    [identify_speakers |-> TRUE, format |-> TRUE, insert_section_headings |-> TRUE,
     research_paras |-> FALSE, add_summary_bullets |-> TRUE, add_description |-> TRUE,
     insert_frame_captures |-> TRUE]

deep ==
    [identify_speakers |-> TRUE, format |-> TRUE, insert_section_headings |-> TRUE,
     research_paras |-> TRUE, add_summary_bullets |-> TRUE, add_description |-> TRUE,
     insert_frame_captures |-> TRUE]

\* Faulty variant of merge_with: research_paras is taken from the receiver alone.
merge_with_dropping_research(a, b) ==
    [identify_speakers |-> a.identify_speakers \/ b.identify_speakers,
     format |-> a.format \/ b.format,
     insert_section_headings |-> a.insert_section_headings \/ b.insert_section_headings,
     research_paras |-> a.research_paras,
     add_summary_bullets |-> a.add_summary_bullets \/ b.add_summary_bullets,
     add_description |-> a.add_description \/ b.add_description,
     insert_frame_captures |-> a.insert_frame_captures \/ b.insert_frame_captures]

merge_with(a, b) ==
    [identify_speakers |-> a.identify_speakers \/ b.identify_speakers,
     format |-> a.format \/ b.format,
     insert_section_headings |-> a.insert_section_headings \/ b.insert_section_headings,
     research_paras |-> a.research_paras \/ b.research_paras,
     add_summary_bullets |-> a.add_summary_bullets \/ b.add_summary_bullets,
     add_description |-> a.add_description \/ b.add_description,
     insert_frame_captures |-> a.insert_frame_captures \/ b.insert_frame_captures]

\* Python's None for a variable that holds a TranscribeOptions.
NoOptions == [none |-> TRUE]
NoPreset == [name |-> "none", value |-> NoOptions]

(***************************************************************************)
(* Items and collaborator calls.                                           *)
(***************************************************************************)
\* store_path of an item: None, the empty string, or a path.
StorePaths == {"None", "", "path"}

\* Python truthiness of a store_path (the asserts of format_results).
Truthy(p) == p \notin {"None", ""}

NoItem == [hist |-> <<>>, store_path |-> "None"]
InputItem == [hist |-> <<"item">>, store_path |-> "None"]
NoReturn == [kind |-> "none"]
Raised == <<"raised">>

\* The items a collaborator may return for the input with provenance `h`.
Outputs(step, h) == {[hist |-> Append(h, step), store_path |-> p] : p \in StorePaths}

\* A step whose flag is off.
Skip(next) ==
    /\ pc' = next
    /\ UNCHANGED <<result, calls, error>>

stepFrame == UNCHANGED <<optVars, parseVars, argVars, item, renderVars>>

\* Faulty variant of Invoke: the exception is caught and the pipeline goes on
\* with the transcript it had.
InvokeSwallowing(step, arg, next) ==
    \/ \E out \in Outputs(step, arg.hist) :
          /\ result' = out
          /\ calls' = Append(calls, [step |-> step, input |-> arg.hist, output |-> out.hist])
          /\ pc' = next
          /\ error' = error
    \/ /\ calls' = Append(calls, [step |-> step, input |-> arg.hist, output |-> Raised])
       /\ pc' = next
       /\ error' = error
       /\ result' = result

\* One collaborator call `result = step(arg)`: it returns an item, or it raises
\* and the exception leaves the entry point.
Invoke(step, arg, next) ==
    \/ \E out \in Outputs(step, arg.hist) :
          /\ result' = out
          /\ calls' = Append(calls, [step |-> step, input |-> arg.hist, output |-> out.hist])
          /\ pc' = next
          /\ error' = error
    \/ /\ calls' = Append(calls, [step |-> step, input |-> arg.hist, output |-> Raised])
       /\ pc' = "raised"
       /\ error' = "CollaboratorError"
       /\ result' = result

(***************************************************************************)
(* transcribe_with_options (cli_commands.py 19-64).                        *)
(***************************************************************************)
\* line 36: result = transcribe(item, language=language)
Transcribe ==
    /\ pc = "transcribe"
    /\ Invoke("transcribe", item, "if_format")
    /\ stepFrame

\* Faulty variant of IfFormat: identify_speakers alone opens the formatting block.
IfFormatOrSpeakers ==
    /\ pc = "if_format"
    /\ pc' = IF options.format \/ options.identify_speakers
                THEN "identify_speakers" ELSE "insert_section_headings"
    /\ UNCHANGED <<result, calls, error>>
    /\ stepFrame

\* line 39: if options.format
IfFormat ==
    /\ pc = "if_format"
    /\ pc' = IF options.format THEN "identify_speakers" ELSE "insert_section_headings"
    /\ UNCHANGED <<result, calls, error>>
    /\ stepFrame

\* lines 41-42
IdentifySpeakers ==
    /\ pc = "identify_speakers"
    /\ IF options.identify_speakers
          THEN Invoke("identify_speakers", result, "strip_html")
          ELSE Skip("strip_html")
    /\ stepFrame

\* line 44
StripHtml ==
    /\ pc = "strip_html"
    /\ Invoke("strip_html", result, "break_into_paragraphs")
    /\ stepFrame

\* line 45
BreakIntoParagraphs ==
    /\ pc = "break_into_paragraphs"
    /\ Invoke("break_into_paragraphs", result, "backfill_timestamps")
    /\ stepFrame

\* line 46
BackfillTimestamps ==
    /\ pc = "backfill_timestamps"
    /\ Invoke("backfill_timestamps", result, "insert_section_headings")
    /\ stepFrame

\* lines 49-50
InsertSectionHeadings ==
    /\ pc = "insert_section_headings"
    /\ IF options.insert_section_headings
          THEN Invoke("insert_section_headings", result, "research_paras")
          ELSE Skip("research_paras")
    /\ stepFrame

\* Faulty variant of ResearchParas: the step is given the original item, not
\* the latest transcript.
ResearchParasOfItem ==
    /\ pc = "research_paras"
    /\ IF options.research_paras
          THEN Invoke("research_paras", item, "add_summary_bullets")
          ELSE Skip("add_summary_bullets")
    /\ stepFrame

\* lines 52-53
ResearchParas ==
    /\ pc = "research_paras"
    /\ IF options.research_paras
          THEN Invoke("research_paras", result, "add_summary_bullets")
          ELSE Skip("add_summary_bullets")
    /\ stepFrame

\* lines 55-56
AddSummaryBullets ==
    /\ pc = "add_summary_bullets"
    /\ IF options.add_summary_bullets
          THEN Invoke("add_summary_bullets", result, "add_description")
          ELSE Skip("add_description")
    /\ stepFrame

\* Faulty variant of AddDescription: it calls insert_section_headings again.
AddDescriptionCallsHeadings ==
    /\ pc = "add_description"
    /\ IF options.add_description
          THEN Invoke("insert_section_headings", result, "insert_frame_captures")
          ELSE Skip("insert_frame_captures")
    /\ stepFrame

\* lines 58-59
AddDescription ==
    /\ pc = "add_description"
    /\ IF options.add_description
          THEN Invoke("add_description", result, "insert_frame_captures")
          ELSE Skip("insert_frame_captures")
    /\ stepFrame

\* lines 61-62
InsertFrameCaptures ==
    /\ pc = "insert_frame_captures"
    /\ IF options.insert_frame_captures
          THEN Invoke("insert_frame_captures", result, "return")
          ELSE Skip("return")
    /\ stepFrame

\* line 64: return result.  Under run_transcription the value is bound to
\* result_item (line 181) and format_results follows (line 183); under a
\* transcribe_* action it is the action's return value.
Return ==
    /\ pc = "return"
    /\ IF entry = "run_transcription"
          THEN /\ result_item' = result
               /\ pc' = "tabbed_webpage_config"
               /\ returned' = returned
          ELSE /\ returned' = [kind |-> "item", item |-> result]
               /\ pc' = "done"
               /\ result_item' = result_item
    /\ UNCHANGED <<optVars, parseVars, argVars, item, result, config, html_result,
                   minified_result, error, calls>>

(***************************************************************************)
(* The transcribe_* actions (cli_commands.py 79-147).                      *)
(***************************************************************************)
Enter(name, o) ==
    /\ pc = "idle"
    /\ entry' = name
    /\ options' = o
    /\ item' = InputItem
    /\ pc' = "transcribe"
    /\ UNCHANGED <<optVars, parseVars, no_minify, result, renderVars, error, calls>>

\* line 90
transcribe_basic == Enter("transcribe_basic", basic)

\* line 109
transcribe_formatted == Enter("transcribe_formatted", formatted)

\* line 128
transcribe_annotated == Enter("transcribe_annotated", annotated)

\* line 147
transcribe_deep == Enter("transcribe_deep", deep)

(***************************************************************************)
(* run_transcription (150-183) and format_results (186-218).               *)
(***************************************************************************)
\* The call run_transcription(ws_root, url, o, language, nm).
run_transcription(o, nm) ==
    /\ pc = "idle"
    /\ entry' = "run_transcription"
    /\ options' = o
    /\ no_minify' = nm
    /\ pc' = "kash_setup"
    /\ UNCHANGED <<optVars, parseVars, item, result, renderVars, error, calls>>

\* lines 171-177: kash_setup, kash_runtime, log_workspace_info
KashSetup ==
    /\ pc = "kash_setup"
    /\ \/ /\ pc' = "prepare_action_input"
          /\ calls' = Append(calls, [step |-> "kash_setup", input |-> <<>>, output |-> <<>>])
          /\ error' = error
       \/ /\ pc' = "raised"
          /\ calls' = Append(calls, [step |-> "kash_setup", input |-> <<>>, output |-> Raised])
          /\ error' = "CollaboratorError"
    /\ UNCHANGED <<optVars, parseVars, argVars, item, result, renderVars>>

\* lines 180-181: input = prepare_action_input(url); input.items[0]
PrepareActionInput ==
    /\ pc = "prepare_action_input"
    /\ \/ /\ item' = InputItem
          /\ pc' = "transcribe"
          /\ calls' = Append(calls, [step |-> "prepare_action_input", input |-> <<>>,
                                     output |-> InputItem.hist])
          /\ error' = error
       \/ \* input.items is empty: items[0] raises IndexError
          /\ item' = item
          /\ pc' = "raised"
          /\ calls' = Append(calls, [step |-> "prepare_action_input", input |-> <<>>,
                                     output |-> <<>>])
          /\ error' = "IndexError"
       \/ /\ item' = item
          /\ pc' = "raised"
          /\ calls' = Append(calls, [step |-> "prepare_action_input", input |-> <<>>,
                                     output |-> Raised])
          /\ error' = "CollaboratorError"
    /\ UNCHANGED <<optVars, parseVars, argVars, result, renderVars>>

\* What a rendering action may return: an ActionResult whose items list holds
\* one item or is empty.
ActionResults(step, h) == {<<>>} \cup {<<o>> : o \in Outputs(step, h)}

FirstHist(items) == IF items = <<>> THEN <<>> ELSE items[1].hist

\* line 205: config = tabbed_webpage_config(ActionInput(items=[result_item]))
TabbedWebpageConfig ==
    /\ pc = "tabbed_webpage_config"
    /\ \/ \E its \in ActionResults("tabbed_webpage_config", result_item.hist) :
             /\ config' = its
             /\ calls' = Append(calls, [step |-> "tabbed_webpage_config",
                                        input |-> result_item.hist,
                                        output |-> FirstHist(its)])
             /\ pc' = "tabbed_webpage_generate"
             /\ error' = error
       \/ /\ config' = config
          /\ calls' = Append(calls, [step |-> "tabbed_webpage_config",
                                     input |-> result_item.hist, output |-> Raised])
          /\ pc' = "raised"
          /\ error' = "CollaboratorError"
    /\ UNCHANGED <<optVars, parseVars, argVars, item, result, result_item, html_result,
                   minified_result, returned>>

\* line 206: html_result = tabbed_webpage_generate(ActionInput(items=config.items))
TabbedWebpageGenerate ==
    /\ pc = "tabbed_webpage_generate"
    /\ \/ \E its \in ActionResults("tabbed_webpage_generate", FirstHist(config)) :
             /\ html_result' = its
             /\ calls' = Append(calls, [step |-> "tabbed_webpage_generate",
                                        input |-> FirstHist(config),
                                        output |-> FirstHist(its)])
             /\ pc' = "minify_html"
             /\ error' = error
       \/ /\ html_result' = html_result
          /\ calls' = Append(calls, [step |-> "tabbed_webpage_generate",
                                     input |-> FirstHist(config), output |-> Raised])
          /\ pc' = "raised"
          /\ error' = "CollaboratorError"
    /\ UNCHANGED <<optVars, parseVars, argVars, item, result, result_item, config,
                   minified_result, returned>>

\* lines 207-210
MinifyHtml ==
    /\ pc = "minify_html"
    /\ IF html_result = <<>>
          THEN \* html_result.items[0] raises IndexError
               /\ pc' = "raised"
               /\ error' = "IndexError"
               /\ UNCHANGED <<minified_result, calls>>
          ELSE IF ~no_minify
          THEN \/ \E out \in Outputs("minify_html", html_result[1].hist) :
                     /\ minified_result' = out
                     /\ calls' = Append(calls, [step |-> "minify_html",
                                                input |-> html_result[1].hist,
                                                output |-> out.hist])
                     /\ pc' = "assert"
                     /\ error' = error
               \/ /\ calls' = Append(calls, [step |-> "minify_html",
                                             input |-> html_result[1].hist,
                                             output |-> Raised])
                  /\ pc' = "raised"
                  /\ error' = "CollaboratorError"
                  /\ minified_result' = minified_result
          ELSE /\ minified_result' = html_result[1]
               /\ pc' = "assert"
               /\ UNCHANGED <<calls, error>>
    /\ UNCHANGED <<optVars, parseVars, argVars, item, result, result_item, config,
                   html_result, returned>>

\* Faulty variant of AssertStorePaths: the second assert is missing.
AssertResultPathOnly ==
    /\ pc = "assert"
    /\ IF Truthy(result_item.store_path)
          THEN /\ returned' = [kind |-> "paths", md_path |-> result_item.store_path,
                               html_path |-> minified_result.store_path]
               /\ pc' = "done"
               /\ error' = error
          ELSE /\ returned' = returned
               /\ pc' = "raised"
               /\ error' = "AssertionError"
    /\ UNCHANGED <<optVars, parseVars, argVars, item, result, result_item, config,
                   html_result, minified_result, calls>>

\* lines 212-218
AssertStorePaths ==
    /\ pc = "assert"
    /\ IF Truthy(result_item.store_path) /\ Truthy(minified_result.store_path)
          THEN /\ returned' = [kind |-> "paths", md_path |-> result_item.store_path,
                               html_path |-> minified_result.store_path]
               /\ pc' = "done"
               /\ error' = error
          ELSE /\ returned' = returned
               /\ pc' = "raised"
               /\ error' = "AssertionError"
    /\ UNCHANGED <<optVars, parseVars, argVars, item, result, result_item, config,
                   html_result, minified_result, calls>>

(***************************************************************************)
(* TranscribeOptions.from_with_flags (transcribe_options.py 77-102).       *)
(*                                                                         *)
(* A string is a sequence of lexemes: a comma, a whitespace character, or  *)
(* a word (a run of characters holding neither).  No concatenation of two  *)
(* or more lexemes of Lexemes is the name of an attribute, so a token      *)
(* names an attribute only when it is a single word.                       *)
(***************************************************************************)
MaxLen == 4

Whitespace == {" "}

\* Words that are no field: a preset factory, a method, and a name the class
\* does not have.
OtherWords == {"basic", "merge_with", "bogus"}

Lexemes == {","} \cup Whitespace \cup FieldSet \cup OtherWords

Strings == UNION {[1..n -> Lexemes] : n \in 0..MaxLen}

\* What hasattr finds on every instance besides the fields: the class's
\* factories and methods.
ClassAttributes ==
    {"basic", "formatted", "annotated", "deep", "from_with_flags", "merge_with"}

RECURSIVE lstrip(_)
lstrip(s) == IF s # <<>> /\ Head(s) \in Whitespace THEN lstrip(Tail(s)) ELSE s

RECURSIVE rstrip(_)
rstrip(s) ==
    IF s # <<>> /\ s[Len(s)] \in Whitespace THEN rstrip(SubSeq(s, 1, Len(s) - 1)) ELSE s

\* Faulty variant of strip: trailing whitespace is kept.
strip_leading_only(s) == lstrip(s)

\* str.strip()
strip(s) == rstrip(lstrip(s))

\* str.split(","): the pieces between the commas, empty pieces kept.
RECURSIVE split(_)
split(s) ==
    IF \A i \in DOMAIN s : s[i] # ","
       THEN <<s>>
       ELSE LET i == CHOOSE k \in DOMAIN s : s[k] = "," /\ \A j \in 1..(k - 1) : s[j] # ","
            IN  <<SubSeq(s, 1, i - 1)>> \o split(SubSeq(s, i + 1, Len(s)))

\* An instance: the seven fields and the other attributes set on it.
Instance(fields) == [fields |-> fields, dict |-> {}]

\* hasattr(obj, flag_name)
hasattr(obj, flag_name) ==
    /\ Len(flag_name) = 1
    /\ flag_name[1] \in FieldSet \cup ClassAttributes \cup obj.dict

\* setattr(obj, flag_name, True), for a name hasattr accepts
setattr(obj, flag_name) ==
    IF flag_name[1] \in FieldSet
       THEN [obj EXCEPT !.fields[flag_name[1]] = TRUE]
       ELSE [obj EXCEPT !.dict = @ \cup {flag_name[1]}]

\* lines 82-87
FromWithFlagsStart ==
    /\ ppc = "start"
    /\ parsed' = Instance(basic)
    /\ IF strip(with_flags) = <<>>
          THEN /\ ppc' = "returned"
               /\ UNCHANGED <<flag_names, idx>>
          ELSE /\ flag_names' = [i \in DOMAIN split(with_flags) |-> strip(split(with_flags)[i])]
               /\ idx' = 1
               /\ ppc' = "loop"
    /\ UNCHANGED <<with_flags, unknown, optVars, pipeVars>>

\* lines 89-100: one iteration of the for loop
FromWithFlagsToken ==
    /\ ppc = "loop"
    /\ idx <= Len(flag_names)
    /\ LET flag_name == flag_names[idx]
       IN  IF flag_name = <<>>
              THEN /\ idx' = idx + 1
                   /\ UNCHANGED <<parsed, unknown, ppc>>
              ELSE IF hasattr(parsed, flag_name)
              THEN /\ parsed' = setattr(parsed, flag_name)
                   /\ idx' = idx + 1
                   /\ UNCHANGED <<unknown, ppc>>
              ELSE /\ unknown' = flag_name
                   /\ ppc' = "raised"
                   /\ UNCHANGED <<parsed, idx>>
    /\ UNCHANGED <<with_flags, flag_names, optVars, pipeVars>>

\* line 102
FromWithFlagsReturn ==
    /\ ppc = "loop"
    /\ idx > Len(flag_names)
    /\ ppc' = "returned"
    /\ UNCHANGED <<with_flags, flag_names, idx, parsed, unknown, optVars, pipeVars>>

(***************************************************************************)
(* Calls of merge_with and of the preset factories.                        *)
(***************************************************************************)
\* Faulty variant of MergeWith: the receiver is updated in place and returned.
MergeWithInPlace ==
    /\ self' = merge_with(self, other)
    /\ merged' = self'
    /\ UNCHANGED <<other, preset, parseVars, pipeVars>>

\* merged = self.merge_with(other)  (lines 104-116)
MergeWith ==
    /\ merged' = merge_with(self, other)
    /\ UNCHANGED <<self, other, preset, parseVars, pipeVars>>

CallPreset(name, value) ==
    /\ preset' = [name |-> name, value |-> value]
    /\ UNCHANGED <<self, other, merged, parseVars, pipeVars>>

CallBasic == CallPreset("basic", basic)

CallFormatted == CallPreset("formatted", formatted)

CallAnnotated == CallPreset("annotated", annotated)

CallDeep == CallPreset("deep", deep)

(***************************************************************************)
(* Specifications.                                                         *)
(***************************************************************************)
OptIdle ==
    /\ merged = NoOptions
    /\ preset = NoPreset

ParseIdle ==
    /\ flag_names = <<>>
    /\ idx = 0
    /\ parsed = NoOptions
    /\ unknown = <<>>

PipeIdle ==
    /\ entry = "none"
    /\ options = NoOptions
    /\ no_minify = FALSE
    /\ item = NoItem
    /\ result = NoItem
    /\ result_item = NoItem
    /\ config = <<>>
    /\ html_result = <<>>
    /\ minified_result = NoItem
    /\ returned = NoReturn
    /\ error = "none"
    /\ calls = <<>>
    /\ pc = "idle"

\* The orchestrator, entered through run_transcription with any configuration
\* or through one of the four transcribe_* actions.
Init ==
    /\ self = basic
    /\ other = basic
    /\ OptIdle
    /\ with_flags = <<>>
    /\ ppc = "idle"
    /\ ParseIdle
    /\ PipeIdle

Steps ==
    \/ KashSetup
    \/ PrepareActionInput
    \/ Transcribe
    \/ IfFormat
    \/ IdentifySpeakers
    \/ StripHtml
    \/ BreakIntoParagraphs
    \/ BackfillTimestamps
    \/ InsertSectionHeadings
    \/ ResearchParas
    \/ AddSummaryBullets
    \/ AddDescription
    \/ InsertFrameCaptures
    \/ Return
    \/ TabbedWebpageConfig
    \/ TabbedWebpageGenerate
    \/ MinifyHtml
    \/ AssertStorePaths

Next ==
    \/ \E o \in AllOptions, nm \in BOOLEAN : run_transcription(o, nm)
    \/ transcribe_basic
    \/ transcribe_formatted
    \/ transcribe_annotated
    \/ transcribe_deep
    \/ Steps

Spec == Init /\ [][Next]_vars

\* from_with_flags on every string of at most MaxLen lexemes.
InitParse ==
    /\ self = basic
    /\ other = basic
    /\ OptIdle
    /\ with_flags \in Strings
    /\ ppc = "start"
    /\ ParseIdle
    /\ PipeIdle

NextParse ==
    \/ FromWithFlagsStart
    \/ FromWithFlagsToken
    \/ FromWithFlagsReturn

SpecParse == InitParse /\ [][NextParse]_vars

\* merge_with on every pair of configurations, and the preset factories.
InitOptions ==
    /\ self \in AllOptions
    /\ other \in AllOptions
    /\ OptIdle
    /\ with_flags = <<>>
    /\ ppc = "idle"
    /\ ParseIdle
    /\ PipeIdle

NextOptions ==
    \/ MergeWith
    \/ CallBasic
    \/ CallFormatted
    \/ CallAnnotated
    \/ CallDeep

SpecOptions == InitOptions /\ [][NextOptions]_vars

\* merge_with alone, on every pair of configurations.
SpecMerge == InitOptions /\ [][MergeWith]_vars

\* A caller that merges a configuration with a preset and runs the
\* orchestrator on the receiver.
Presets == {basic, formatted, annotated, deep}

InitFrame ==
    /\ self \in AllOptions
    /\ other \in Presets
    /\ OptIdle
    /\ with_flags = <<>>
    /\ ppc = "idle"
    /\ ParseIdle
    /\ PipeIdle

NextFrame ==
    \/ MergeWith
    \/ \E nm \in BOOLEAN : run_transcription(self, nm)
    \/ Steps

SpecFrame == InitFrame /\ [][NextFrame]_vars

(***************************************************************************)
(* Properties of the orchestrator.                                         *)
(***************************************************************************)
\* The fixed order of the collaborators of transcribe_with_options.
Order ==
    <<"transcribe", "identify_speakers", "strip_html", "break_into_paragraphs",
      "backfill_timestamps", "insert_section_headings", "research_paras",
      "add_summary_bullets", "add_description", "insert_frame_captures">>

OrderSet == {Order[i] : i \in DOMAIN Order}

Pos(step) == CHOOSE i \in DOMAIN Order : Order[i] = step

IsPipelineCall(c) == c.step \in OrderSet

\* The calls transcribe_with_options made so far, in the order it made them.
PipelineCalls == SelectSeq(calls, IsPipelineCall)

Invoked == {PipelineCalls[i].step : i \in DOMAIN PipelineCalls}

\* transcribe_with_options has executed line 36 (whatever came of it).
PastTranscribe ==
    pc \in {"if_format", "identify_speakers", "strip_html", "break_into_paragraphs",
            "backfill_timestamps", "insert_section_headings", "research_paras",
            "add_summary_bullets", "add_description", "insert_frame_captures", "return",
            "tabbed_webpage_config", "tabbed_webpage_generate", "minify_html", "assert",
            "done"}

\* transcribe_with_options has reached its return statement: no collaborator
\* of it failed.
Completed ==
    pc \in {"return", "tabbed_webpage_config", "tabbed_webpage_generate", "minify_html",
            "assert", "done"}
    \/ (pc = "raised" /\ result_item # NoItem)

\* C1: for every configuration the calls of transcribe_with_options are a
\* subsequence of Order: positions strictly increase along the log, the first
\* call is transcribe, and once line 36 was executed transcribe was called
\* exactly once.
C1_FixedOrder ==
    /\ \A i, j \in DOMAIN PipelineCalls :
          i < j => Pos(PipelineCalls[i].step) < Pos(PipelineCalls[j].step)
    /\ PipelineCalls # <<>> => PipelineCalls[1].step = "transcribe"
    /\ PastTranscribe =>
          Cardinality({i \in DOMAIN PipelineCalls : PipelineCalls[i].step = "transcribe"}) = 1

C1_Witness ==
    /\ pc = "done"
    /\ options = deep
    /\ [i \in DOMAIN PipelineCalls |-> PipelineCalls[i].step] = Order

\* The steps the flags of `o` ask for.
ExpectedSteps(o) ==
    {"transcribe"}
    \cup (IF o.format /\ o.identify_speakers THEN {"identify_speakers"} ELSE {})
    \cup (IF o.format THEN {"strip_html", "break_into_paragraphs", "backfill_timestamps"}
          ELSE {})
    \cup {f \in {"insert_section_headings", "research_paras", "add_summary_bullets",
                 "add_description", "insert_frame_captures"} : o[f]}

\* C2: in a run where no collaborator fails the set of invoked steps is exactly
\* the one the flags determine; identify_speakers without format never runs
\* speaker identification.
C2_StepsByFlags ==
    Completed => Invoked = ExpectedSteps(options)

C2_Witness ==
    /\ Completed
    /\ options.identify_speakers
    /\ ~options.format
    /\ options.add_description
    /\ "identify_speakers" \notin Invoked
    /\ "add_description" \in Invoked

\* C3: the transcript is threaded linearly: transcribe receives the item, every
\* later step receives the output of the call before it, the returned value is
\* the output of the last call, and with basic() it is the output of transcribe.
C3_LinearThreading ==
    /\ PipelineCalls # <<>> => PipelineCalls[1].input = item.hist
    /\ \A i \in DOMAIN PipelineCalls :
          i > 1 => PipelineCalls[i].input = PipelineCalls[i - 1].output
    /\ Completed =>
          LET last == PipelineCalls[Len(PipelineCalls)].output
          IN  /\ result.hist = last
              /\ result_item # NoItem => result_item = result
              /\ returned.kind = "item" => returned.item = result
              /\ options = basic => last = <<"item", "transcribe">>

C3_Witness ==
    /\ returned.kind = "item"
    /\ entry = "transcribe_annotated"
    /\ Len(PipelineCalls) = 9
    /\ returned.item.hist =
          <<"item", "transcribe", "identify_speakers", "strip_html",
            "break_into_paragraphs", "backfill_timestamps", "insert_section_headings",
            "add_summary_bullets", "add_description", "insert_frame_captures">>

\* C8: fail-fast, no retry: only the last logged call can be a failure, a
\* failure leaves the entry point without a returned value, and no step is
\* invoked twice.
C8_FailFast ==
    /\ \A i \in DOMAIN calls : i < Len(calls) => calls[i].output # Raised
    /\ \A i \in DOMAIN calls :
          calls[i].output = Raised =>
             /\ pc = "raised"
             /\ error = "CollaboratorError"
             /\ returned = NoReturn
             /\ (IsPipelineCall(calls[i]) => result_item = NoItem)
    /\ \A i, j \in DOMAIN calls : calls[i].step = calls[j].step => i = j

C8_Witness ==
    /\ options = deep
    /\ error = "CollaboratorError"
    /\ calls[Len(calls)].step = "strip_html"
    /\ Invoked = {"transcribe", "identify_speakers", "strip_html"}

\* The collaborators run_transcription reaches, in its order.
RunOrder ==
    <<"kash_setup", "prepare_action_input", "transcribe", "tabbed_webpage_config",
      "tabbed_webpage_generate", "minify_html">>

RunOrderSet == {RunOrder[i] : i \in DOMAIN RunOrder}

RunPos(step) == CHOOSE i \in DOMAIN RunOrder : RunOrder[i] = step

IsRunCall(c) == c.step \in RunOrderSet

RunCalls == SelectSeq(calls, IsRunCall)

MinifyCount == Cardinality({i \in DOMAIN calls : calls[i].step = "minify_html"})

\* format_results has executed its asserts.
PastAssert ==
    /\ entry = "run_transcription"
    /\ pc \in {"done", "raised"}
    /\ error \in {"none", "AssertionError"}

\* C9: run_transcription is a straight sequence (input preparation, the
\* orchestrator, page config, page generation, minify_html); minify_html is
\* called at most once, never with no_minify, and exactly once without it when
\* the asserts are reached; the paths are returned only when both items carry a
\* store path, otherwise the run ends in an AssertionError with nothing returned.
C9_RunTranscription ==
    /\ \A i, j \in DOMAIN RunCalls :
          i < j => RunPos(RunCalls[i].step) < RunPos(RunCalls[j].step)
    /\ pc \in {"tabbed_webpage_config", "tabbed_webpage_generate", "minify_html", "assert"}
          => Completed /\ result_item = result
    /\ MinifyCount <= 1
    /\ no_minify => MinifyCount = 0
    /\ (pc = "assert" \/ PastAssert) =>
          /\ (MinifyCount = 1) <=> ~no_minify
          /\ [i \in DOMAIN RunCalls |-> RunCalls[i].step] =
                IF no_minify THEN SubSeq(RunOrder, 1, 5) ELSE RunOrder
    /\ returned.kind = "paths" =>
          /\ Truthy(result_item.store_path)
          /\ Truthy(minified_result.store_path)
          /\ returned.md_path = result_item.store_path
          /\ returned.html_path = minified_result.store_path
    /\ PastAssert =>
          IF Truthy(result_item.store_path) /\ Truthy(minified_result.store_path)
             THEN pc = "done" /\ returned.kind = "paths"
             ELSE error = "AssertionError" /\ returned = NoReturn

C9_Witness ==
    /\ PastAssert
    /\ no_minify
    /\ Truthy(result_item.store_path)
    /\ minified_result.store_path = "None"
    /\ error = "AssertionError"
    /\ returned = NoReturn

(***************************************************************************)
(* Properties of from_with_flags.  The tokens of the input are stated here *)
(* by position, independently of split and strip.                          *)
(***************************************************************************)
\* The positions that delimit tokens: before the string, each comma, after it.
Delimiters(s) == {0, Len(s) + 1} \cup {i \in DOMAIN s : s[i] = ","}

NumTokens(s) == Cardinality(Delimiters(s)) - 1

\* The n-th delimiter, counting from 0.
Delimiter(s, n) ==
    CHOOSE d \in Delimiters(s) : Cardinality({c \in Delimiters(s) : c < d}) = n

\* The n-th token with the whitespace around it removed.
Token(s, n) ==
    LET lo == Delimiter(s, n - 1) + 1
        hi == Delimiter(s, n) - 1
        inked == {i \in lo..hi : s[i] \notin Whitespace}
    IN  IF inked = {} THEN <<>>
        ELSE SubSeq(s, CHOOSE i \in inked : \A j \in inked : i <= j,
                       CHOOSE i \in inked : \A j \in inked : i >= j)

IsFlagName(t) == Len(t) = 1 /\ t[1] \in FieldSet

\* The positions of the non-empty tokens that name no flag.
BadTokens(s) == {n \in 1..NumTokens(s) : Token(s, n) # <<>> /\ ~IsFlagName(Token(s, n))}

FirstBadToken(s) == Token(s, CHOOSE n \in BadTokens(s) : \A m \in BadTokens(s) : n <= m)

NamedFlags(s) == [f \in FieldSet |-> \E n \in 1..NumTokens(s) : Token(s, n) = <<f>>]

ParseEnded == ppc \in {"returned", "raised"}

\* C4: whenever a non-empty trimmed token names none of the seven flags,
\* from_with_flags raises, the error names the first such token, no later token
\* is processed and no configuration is returned.
C4_UnknownTokenRaises ==
    (ParseEnded /\ BadTokens(with_flags) # {}) =>
        /\ ppc = "raised"
        /\ unknown = FirstBadToken(with_flags)
        /\ flag_names[idx] = unknown

\* C5: when every non-empty trimmed token is a flag name, from_with_flags never
\* raises and returns a fresh configuration in which exactly the named flags
\* are true, whatever the whitespace, the order, the empty tokens and the
\* repetitions; an empty or whitespace-only string yields the default.
C5_ParsesNamedFlags ==
    BadTokens(with_flags) = {} =>
        /\ ppc # "raised"
        /\ unknown = <<>>
        /\ ppc = "returned" =>
              /\ parsed.fields = NamedFlags(with_flags)
              /\ parsed.dict = {}
              /\ (\A i \in DOMAIN with_flags : with_flags[i] \in Whitespace)
                    => parsed.fields = basic

C5_Witness ==
    /\ ppc = "returned"
    /\ with_flags = <<"format", ",", " ", "format">>
    /\ parsed.fields = TranscribeOptions({"format"})

(***************************************************************************)
(* Properties of merge_with and of the presets.                            *)
(***************************************************************************)
\* C6: merge_with is the field-by-field OR: commutative, associative, with
\* basic() as identity on both sides, and no flag of either operand is lost.
C6_MergeIsOr ==
    /\ merge_with(self, other) = merge_with(other, self)
    /\ \A c \in AllOptions :
          merge_with(merge_with(self, other), c) = merge_with(self, merge_with(other, c))
    /\ merge_with(basic, self) = self
    /\ merge_with(self, basic) = self
    /\ \A f \in FieldSet : (self[f] \/ other[f]) => merge_with(self, other)[f]
    /\ merged # NoOptions => merged = [f \in FieldSet |-> self[f] \/ other[f]]

C6_Witness ==
    /\ merged # NoOptions
    /\ self = TranscribeOptions({"research_paras", "format"})
    /\ other = TranscribeOptions({"add_description", "format"})
    /\ merged = TranscribeOptions({"research_paras", "add_description", "format"})

\* The table of presets of the specification.
PresetTable(name) ==
    IF name = "basic" THEN TranscribeOptions({})
    ELSE IF name = "formatted" THEN TranscribeOptions({"format", "identify_speakers"})
    ELSE IF name = "annotated" THEN TranscribeOptions(FieldSet \ {"research_paras"})
    ELSE TranscribeOptions(FieldSet)

\* C7: every call of a preset factory returns the tabulated value, annotated
\* differs from deep in research_paras alone, and a call of the same factory
\* again returns an equal value.
C7_Presets ==
    /\ [](preset # NoPreset =>
            /\ preset.value = PresetTable(preset.name)
            /\ preset.name = "annotated" =>
                  /\ ~preset.value.research_paras
                  /\ deep.research_paras
                  /\ \A f \in FieldSet \ {"research_paras"} : preset.value[f] = deep[f])
    /\ [][(preset # NoPreset /\ preset'.name = preset.name)
             => preset'.value = preset.value]_vars

C7_Witness ==
    /\ preset.name = "annotated"
    /\ preset.value = TranscribeOptions(FieldSet \ {"research_paras"})

(***************************************************************************)
(* The frame of the operations that consume a configuration.               *)
(***************************************************************************)
\* C10: no step changes the operands of merge_with, and once
\* transcribe_with_options holds its options argument no step changes it,
\* whatever the outcome of the run.
C10_ConfigurationsUnchanged ==
    [][/\ self' = self
       /\ other' = other
       /\ options # NoOptions => options' = options
       /\ merged' # merged => merged' = merge_with(self, other)]_vars

C10_Witness ==
    /\ merged # NoOptions
    /\ merged # self
    /\ merged # other
    /\ options = self
    /\ error = "CollaboratorError"
    /\ calls[Len(calls)].step = "research_paras"

====
